---------------------------- MODULE Spec2Model ----------------------------
(***************************************************************************)
(* Audero LSG (src/src/audero-lsg.js): the extraction and normalisation    *)
(* functions of StyleGuide.                                                *)
(*                                                                         *)
(* A JavaScript string is a sequence of one-character strings, so that     *)
(* indexOf, split, trim, parseFloat, the regular expressions and the       *)
(* default sort order are computed character by character.  The value      *)
(* undefined is the one-element sequence <<"undefined">>, which no string  *)
(* equals since its element is not a single character.                     *)
(*                                                                         *)
(* A JavaScript number is NaN or a fixed-point decimal with Scale units    *)
(* per integer; the input universes hold values whose arithmetic is exact  *)
(* in that representation and in IEEE doubles alike.                       *)
(***************************************************************************)
EXTENDS Integers, Sequences, FiniteSets, TLC

VARIABLES
    properties,       \* statistics.declarations.properties: present name -> values
    allFontSizes,     \* what statistics.declarations.getAllFontSizes() returns
    allFontFamilies,  \* what statistics.declarations.getAllFontFamilies() returns
    rules,            \* cssAst.stylesheet.rules
    called,           \* the operation that ran last ("" before any)
    ret,              \* what it returned
    raised            \* whether it threw instead of returning

vars == <<properties, allFontSizes, allFontFamilies, rules, called, ret, raised>>

doc == <<properties, allFontSizes, allFontFamilies, rules>>

-----------------------------------------------------------------------------
(* Bounds of the explored documents *)

MaxColorDecls == 2

MaxSpacingDecls == 2

MaxFamilies == 1

MaxFontFaces == 2

MaxHtmlRules == 3

MaxSizes == 3

-----------------------------------------------------------------------------
(* Strings *)

Undefined == <<"undefined">>

\* Boolean(value) for a string or undefined
Truthy(v) == v /= <<>> /\ v /= Undefined

\* The characters in use, in ascending UTF-16 code unit order
Chars ==
    << " ", "\"", "#", "%", "'", "(", ")", ",", "-", ".", "/",
       "0", "1", "2", "3", "4", "5", "6", "7", "8", "9", "=", "?",
       "A", "B", "C", "D", "E", "F", "G", "L", "N", "O", "R", "S", "U", "\\",
       "a", "b", "c", "d", "e", "f", "g", "h", "i", "l", "m", "n", "o",
       "p", "r", "s", "t", "u", "v", "w", "x", "y" >>

Code(c) == CHOOSE i \in 1..Len(Chars) : Chars[i] = c

Digits == {"0", "1", "2", "3", "4", "5", "6", "7", "8", "9"}

DigitVal(c) == Code(c) - Code("0")

\* [\dA-F] under the i flag
IsHexDigit(c) == c \in Digits \cup {"A", "B", "C", "D", "E", "F"}
                              \cup {"a", "b", "c", "d", "e", "f"}

\* a < b for two strings, as the default comparison of Array.prototype.sort
RECURSIVE StrLess(_, _)
StrLess(a, b) ==
    IF b = <<>> THEN FALSE
    ELSE IF a = <<>> THEN TRUE
    ELSE IF a[1] /= b[1] THEN Code(a[1]) < Code(b[1])
    ELSE StrLess(Tail(a), Tail(b))

\* Whether sub occurs in s at position i (1-based)
OccursAt(s, sub, i) ==
    /\ i + Len(sub) - 1 <= Len(s)
    /\ \A k \in 1..Len(sub) : s[i + k - 1] = sub[k]

\* String.prototype.indexOf: 0-based, -1 when absent
indexOf(s, sub) ==
    LET hits == {i \in 1..(Len(s) + 1) : OccursAt(s, sub, i)}
    IN  IF hits = {} THEN -1
        ELSE (CHOOSE i \in hits : \A j \in hits : i <= j) - 1

\* Array.prototype.indexOf(element) >= 0
Includes(array, element) == \E i \in 1..Len(array) : array[i] = element

\* Array.prototype.reverse
reverse(array) == [i \in 1..Len(array) |-> array[Len(array) + 1 - i]]

\* Array.prototype.sort() without a comparator, on strings: insertion of x
RECURSIVE InsertSorted(_, _)
InsertSorted(x, sorted) ==
    IF sorted = <<>> THEN <<x>>
    ELSE IF StrLess(x, Head(sorted)) THEN <<x>> \o sorted
    ELSE <<Head(sorted)>> \o InsertSorted(x, Tail(sorted))

RECURSIVE sort(_)
sort(array) ==
    IF array = <<>> THEN <<>>
    ELSE InsertSorted(array[Len(array)], sort(SubSeq(array, 1, Len(array) - 1)))

\* All sequences over S of length lo..hi
SeqsOf(S, lo, hi) == UNION {[1..n -> S] : n \in lo..hi}

-----------------------------------------------------------------------------
(* Numbers *)

\* fixed-point units per integer
Scale == 1000

NaN == [nan |-> TRUE, v |-> 0]

Num(v) == [nan |-> FALSE, v |-> v]

NumSub(a, b) == IF a.nan \/ b.nan THEN NaN ELSE Num(a.v - b.v)

NumMul(a, b) == IF a.nan \/ b.nan THEN NaN ELSE Num((a.v * b.v) \div Scale)

NumDiv(a, b) == IF a.nan \/ b.nan THEN NaN ELSE Num((a.v * Scale) \div b.v)

\* the number of leading characters of s that are in set
RECURSIVE LeadLen(_, _)
LeadLen(s, set) ==
    IF s = <<>> \/ s[1] \notin set THEN 0 ELSE 1 + LeadLen(Tail(s), set)

Drop(s, n) == SubSeq(s, n + 1, Len(s))

\* the value of a string of digits
RECURSIVE IntOf(_)
IntOf(ds) ==
    IF ds = <<>> THEN 0 ELSE IntOf(SubSeq(ds, 1, Len(ds) - 1)) * 10 + DigitVal(ds[Len(ds)])

\* the value, in units, of the digits after the decimal point
RECURSIVE FracOf(_, _)
FracOf(ds, unit) ==
    IF ds = <<>> \/ unit = 0 THEN 0
    ELSE DigitVal(ds[1]) * unit + FracOf(Tail(ds), unit \div 10)

\* parseFloat: leading white space, a sign, digits, a point, digits; NaN without a digit
parseFloat(s) ==
    LET s1 == Drop(s, LeadLen(s, {" "}))
        signed == s1 /= <<>> /\ s1[1] \in {"-", "+"}
        s2 == IF signed THEN Tail(s1) ELSE s1
        intLen == LeadLen(s2, Digits)
        s3 == Drop(s2, intLen)
        fracLen == IF s3 /= <<>> /\ s3[1] = "." THEN LeadLen(Tail(s3), Digits) ELSE 0
        mag == IntOf(SubSeq(s2, 1, intLen)) * Scale
                 + FracOf(SubSeq(s3, 2, 1 + fracLen), Scale \div 10)
    IN  IF intLen + fracLen = 0 THEN NaN
        ELSE IF signed /\ s1[1] = "-" THEN Num(0 - mag) ELSE Num(mag)

\* the decimal digits of a natural number
RECURSIVE DigitsOf(_)
DigitsOf(n) ==
    IF n < 10 THEN <<Chars[Code("0") + n]>>
    ELSE DigitsOf(n \div 10) \o <<Chars[Code("0") + (n % 10)]>>

\* the digits of f units after the point, without trailing zeros
RECURSIVE FracDigits(_, _)
FracDigits(f, unit) ==
    IF f = 0 \/ unit = 0 THEN <<>>
    ELSE <<Chars[Code("0") + (f \div unit)]>> \o FracDigits(f % unit, unit \div 10)

\* Number to string, as in number + 'px'
NumToStr(a) ==
    IF a.nan THEN <<"N", "a", "N">>
    ELSE LET m == IF a.v < 0 THEN 0 - a.v ELSE a.v
             f == FracDigits(m % Scale, Scale \div 10)
         IN  (IF a.v < 0 THEN <<"-">> ELSE <<>>)
               \o DigitsOf(m \div Scale)
               \o (IF f = <<>> THEN <<>> ELSE <<".">> \o f)

-----------------------------------------------------------------------------
(* Module-level data and helpers *)

defaultFontSize == <<"1", "6", "p", "x">>

excludedValues ==
    << <<"a", "u", "t", "o">>,
       <<"i", "n", "h", "e", "r", "i", "t">>,
       <<"i", "n", "i", "t", "i", "a", "l">>,
       <<"n", "o", "n", "e">> >>

notExcluded(item) == ~Includes(excludedValues, item)

\* unique: keeps the first occurrence of every element
unique(array) ==
    LET firsts == {i \in 1..Len(array) : \A j \in 1..(i - 1) : array[j] /= array[i]}
        RECURSIVE pick(_)
        pick(i) == IF i > Len(array) THEN <<>>
                   ELSE IF i \in firsts THEN <<array[i]>> \o pick(i + 1)
                   ELSE pick(i + 1)
    IN  pick(1)

\* isHackyColor with the i flag of the pattern left out
isHackyColorNoIFlag(color) ==
    IF indexOf(color, <<"#">>) /= 0 THEN FALSE
    ELSE ~( /\ Len(color) \in {4, 7}
            /\ \A i \in 2..Len(color) :
                 color[i] \in Digits \cup {"A", "B", "C", "D", "E", "F"} )

\* isHackyColor: starts with # and is not /^#([\dA-F]{3}|[\dA-F]{6})$/i
isHackyColor(color) ==
    IF indexOf(color, <<"#">>) /= 0 THEN FALSE
    ELSE ~( /\ Len(color) \in {4, 7}
            /\ \A i \in 2..Len(color) : IsHexDigit(color[i]) )

\* properties[name] || []
propOrEmpty(name) ==
    IF name \in DOMAIN properties THEN properties[name] ELSE <<>>

-----------------------------------------------------------------------------
(* Colors *)

\* the body shared by getBackgroundColors and getColorColors
colorsOf(name) ==
    LET colors == SelectSeq(propOrEmpty(name), Truthy)
    IN  IF Len(colors) = 0 THEN colors
        ELSE sort(SelectSeq(unique(SelectSeq(colors, LAMBDA c : ~isHackyColor(c))),
                            notExcluded))

getBackgroundColors ==
    colorsOf("background-color")

getColorColors == colorsOf("color")

\* getColors without the call of unique
getColorsNoUnique == sort(getColorColors \o getBackgroundColors)

getColors == sort(unique(getColorColors \o getBackgroundColors))

Range(array) == {array[i] : i \in 1..Len(array)}

GetBackgroundColors ==
    /\ called' = "getBackgroundColors"
    /\ ret' = getBackgroundColors
    /\ raised' = FALSE
    /\ UNCHANGED doc

GetColorColors ==
    /\ called' = "getColorColors"
    /\ ret' = getColorColors
    /\ raised' = FALSE
    /\ UNCHANGED doc

GetColors ==
    /\ called' = "getColors"
    /\ ret' = getColors
    /\ raised' = FALSE
    /\ UNCHANGED doc

\* Values of the color and background-color declarations of the explored documents
ColorValues ==
    { <<"#", "0", "0", "0">>,
      <<"#", "a", "1", "B", "2", "c", "3">>,
      <<"#", "0", "0", "0", "\\", "9">>,
      <<"r", "e", "d">>,
      <<"n", "o", "n", "e">>,
      <<>> }

\* The aggregation holds a property only when the document declares it
PropertyMaps(names, values, max) ==
    UNION {[D -> SeqsOf(values, 1, max)] : D \in SUBSET names}

NoCall ==
    /\ called = ""
    /\ ret = <<>>
    /\ raised = FALSE

InitColors ==
    /\ properties \in PropertyMaps({"color", "background-color"}, ColorValues, MaxColorDecls)
    /\ allFontSizes = <<>>
    /\ allFontFamilies = <<>>
    /\ rules = <<>>
    /\ NoCall

NextColors ==
    \/ GetBackgroundColors
    \/ GetColorColors
    \/ GetColors

SpecColors == InitColors /\ [][NextColors]_vars

-----------------------------------------------------------------------------
(* Claims on colors *)

\* C2: getColors() is exactly the set union of getColorColors() and
\* getBackgroundColors(), each element once, in ascending lexicographic order.
C2_ColorsIsSortedUnion ==
    called = "getColors" =>
        /\ Range(ret) = Range(getColorColors) \cup Range(getBackgroundColors)
        /\ \A i \in 1..(Len(ret) - 1) : StrLess(ret[i], ret[i + 1])

\* a color in both lists, one in each list only, and a result of three
C2_Witness ==
    /\ called = "getColors"
    /\ Range(getColorColors) \cap Range(getBackgroundColors) /= {}
    /\ Range(getColorColors) \ Range(getBackgroundColors) /= {}
    /\ Range(getBackgroundColors) \ Range(getColorColors) /= {}
    /\ Len(ret) >= 3

\* the claim's own reading of a hexadecimal color: # then 3 or 6 hex digits
WellFormedHex(v) ==
    /\ Len(v) \in {4, 7}
    /\ v[1] = "#"
    /\ \A i \in 2..Len(v) :
         \E d \in 0..15 : v[i] \in { <<"0","1","2","3","4","5","6","7","8","9",
                                       "a","b","c","d","e","f">>[d + 1],
                                     <<"0","1","2","3","4","5","6","7","8","9",
                                       "A","B","C","D","E","F">>[d + 1] }

MalformedHex(v) == Len(v) >= 1 /\ v[1] = "#" /\ ~WellFormedHex(v)

\* C3: no malformed # value is in a color list; every well-formed hex color
\* assigned to color (background-color) is in getColorColors
\* (getBackgroundColors) and in getColors.
C3_HackyHexExcluded ==
    /\ called \in {"getColorColors", "getBackgroundColors", "getColors"} =>
         \A i \in 1..Len(ret) : ~MalformedHex(ret[i])
    /\ called = "getColorColors" =>
         \A v \in Range(propOrEmpty("color")) : WellFormedHex(v) => v \in Range(ret)
    /\ called = "getBackgroundColors" =>
         \A v \in Range(propOrEmpty("background-color")) :
            WellFormedHex(v) => v \in Range(ret)
    /\ called = "getColors" =>
         \A v \in Range(propOrEmpty("color")) \cup Range(propOrEmpty("background-color")) :
            WellFormedHex(v) => v \in Range(ret)

\* color holds #000\9 and a six-digit mixed-case color; only the latter is returned
C3_Witness ==
    /\ called = "getColorColors"
    /\ \E v \in Range(propOrEmpty("color")) : MalformedHex(v)
    /\ \E v \in Range(ret) : WellFormedHex(v) /\ Len(v) = 7

-----------------------------------------------------------------------------
(* Sorting with a comparator *)

\* String.prototype.split on a one-character separator
RECURSIVE split(_, _)
split(s, sep) ==
    LET i == indexOf(s, <<sep>>)
    IN  IF i < 0 THEN <<s>>
        ELSE <<SubSeq(s, 1, i)>> \o split(Drop(s, i + 1), sep)

\* array.reduce(function(p, v) { return p.concat(v.split(sep)); }, [])
RECURSIVE splitAll(_, _)
splitAll(array, sep) ==
    IF array = <<>> THEN <<>>
    ELSE split(Head(array), sep) \o splitAll(Tail(array), sep)

\* item.replace(/([-\d.]+).*/, ''): what precedes the first sign, digit or point
unitOf(item) ==
    LET n == LeadLen(item, {c \in Range(Chars) : c \notin Digits \cup {"-", "."}})
    IN  SubSeq(item, 1, n)

\* sortUnitValues; localeCompare orders the units met here, runs of lower-case
\* letters, alphabetically
sortUnitValues(item1, item2) ==
    LET unit1 == unitOf(item1)
        unit2 == unitOf(item2)
    IN  IF unit1 /= unit2
        THEN (IF StrLess(unit1, unit2) THEN Num(0 - Scale) ELSE Num(Scale))
        ELSE NumSub(parseFloat(item1), parseFloat(item2))

\* sortScalableFontSizes(rootFontSize)(size1, size2)
sortScalableFontSizes(rootFontSize, size1, size2) ==
    LET px(size) == NumMul(parseFloat(size),
                           IF indexOf(size, <<"r", "e", "m">>) >= 0
                           THEN rootFontSize ELSE Num(Scale))
    IN  NumSub(px(size1), px(size2))

\* a comparator's result is negative (NaN counts as +0)
Negative(n) == ~n.nan /\ n.v < 0

\* the comparator is a consistent one on the elements: a strict weak order
Consistent(S, lt) ==
    /\ \A a \in S : <<a, a>> \notin lt
    /\ \A a, b \in S : <<a, b>> \in lt => <<b, a>> \notin lt
    /\ \A a, b, c \in S : <<a, b>> \in lt /\ <<b, c>> \in lt => <<a, c>> \in lt
    /\ \A a, b, c \in S :
         (<<a, b>> \notin lt /\ <<b, a>> \notin lt /\ <<b, c>> \notin lt /\ <<c, b>> \notin lt)
            => (<<a, c>> \notin lt /\ <<c, a>> \notin lt)

RemoveAt(array, i) == SubSeq(array, 1, i - 1) \o SubSeq(array, i + 1, Len(array))

\* the orders of array in which no element precedes one that is less than it
RECURSIVE Orders(_, _)
Orders(array, lt) ==
    IF array = <<>> THEN {<<>>}
    ELSE UNION { { <<array[i]>> \o rest : rest \in Orders(RemoveAt(array, i), lt) } :
                 i \in {k \in 1..Len(array) :
                          \A j \in 1..Len(array) : <<array[j], array[k]>> \notin lt} }

\* What array.sort(comparator) may leave: elements that compare equal come in
\* any order, and with an inconsistent comparator the order is
\* implementation-defined.  lt holds the pairs the comparator puts in order.
sortBy(array, lt) ==
    IF Consistent(Range(array), lt) THEN Orders(array, lt) ELSE Orders(array, {})

-----------------------------------------------------------------------------
(* Spacings *)

\* (properties.margin || []).concat(properties.padding).filter(Boolean), split
spacingTokens ==
    LET spacings == SelectSeq(
            propOrEmpty("margin")
              \o (IF "padding" \in DOMAIN properties
                  THEN properties["padding"] ELSE <<Undefined>>),
            Truthy)
    IN  splitAll(spacings, " ")

\* getSpacings: the set of the arrays it may return
getSpacings ==
    LET kept == SelectSeq(unique(spacingTokens), notExcluded)
        lt == {p \in Range(kept) \X Range(kept) : Negative(sortUnitValues(p[1], p[2]))}
    IN  { reverse(sorted) : sorted \in sortBy(kept, lt) }

GetSpacings ==
    /\ called' = "getSpacings"
    /\ ret' \in getSpacings
    /\ raised' = FALSE
    /\ UNCHANGED doc

\* Values of the margin and padding declarations of the explored documents
SpacingValues ==
    { <<"1", "0", "p", "x", " ", "5", "p", "x", " ", "1", "0", "p", "x", " ", "5", "p", "x">>,
      <<"0", " ", "a", "u", "t", "o">>,
      <<"2", "p", "x", " ", "1", "0", "e", "m">>,
      <<"1", "e", "m">>,
      <<>> }

InitSpacings ==
    /\ properties \in PropertyMaps({"margin", "padding"}, SpacingValues, MaxSpacingDecls)
    /\ allFontSizes = <<>>
    /\ allFontFamilies = <<>>
    /\ rules = <<>>
    /\ NoCall

NextSpacings == GetSpacings

SpecSpacings == InitSpacings /\ [][NextSpacings]_vars

-----------------------------------------------------------------------------
(* Claims on spacings *)

\* the remainder of a token after its sign, digits and fraction
TrailingUnit(token) == Drop(token, LeadLen(token, Digits \cup {"-", "."}))

\* C10: getSpacings() returns exactly the distinct, non-excluded tokens of the
\* margin and padding values, in descending order of (trailing unit, magnitude):
\* tokens of different units by their units, tokens of one unit by magnitude.
C10_SpacingsByUnitThenMagnitude ==
    called = "getSpacings" =>
        /\ Range(ret) = {t \in Range(spacingTokens) : notExcluded(t)}
        /\ \A i, j \in 1..Len(ret) : i /= j => ret[i] /= ret[j]
        /\ \A i, j \in 1..Len(ret) : i < j =>
             IF TrailingUnit(ret[i]) /= TrailingUnit(ret[j])
             THEN StrLess(TrailingUnit(ret[j]), TrailingUnit(ret[i]))
             ELSE parseFloat(ret[i]).v >= parseFloat(ret[j]).v

-----------------------------------------------------------------------------
(* Fonts *)

\* String.prototype.trim
trim(s) ==
    LET lead == LeadLen(s, {" "})
        rest == Drop(s, lead)
        trail == LeadLen(reverse(rest), {" "})
    IN  SubSeq(rest, 1, Len(rest) - trail)

\* fontFamily.split(',').map(trim), over all of array
RECURSIVE splitFonts(_)
splitFonts(array) ==
    IF array = <<>> THEN <<>>
    ELSE LET parts == split(Head(array), ",")
         IN  [i \in 1..Len(parts) |-> trim(parts[i])] \o splitFonts(Tail(array))

getFontFamilies == allFontFamilies

\* fontFamily.split throws a TypeError on an entry that is no string
getFontsInUseThrows == \E i \in 1..Len(getFontFamilies) : getFontFamilies[i] = Undefined

getFontsInUse == sort(unique(splitFonts(getFontFamilies)))

\* the value of the last declaration of the property in the block, or undefined
lastValue(declarations, property) ==
    LET found == SelectSeq(declarations,
                           LAMBDA d : d.type = "declaration" /\ d.property = property)
    IN  IF found = <<>> THEN Undefined ELSE found[Len(found)].value

Quotes == {"'", "\""}

\* whether (?:\?.*)?['"]?\) matches at position e of s
urlTailAt(s, e) ==
    /\ e <= Len(s)
    /\ \/ s[e] = ")"
       \/ s[e] \in Quotes /\ e + 1 <= Len(s) /\ s[e + 1] = ")"
       \/ s[e] = "?" /\ \E p \in (e + 1)..Len(s) : s[p] = ")"

\* where group 1 starts when url\s*\( matches at position i of s, else 0: the
\* optional quote is taken when it is there
urlGroupStart(s, i) ==
    IF /\ i + 2 <= Len(s)
       /\ s[i] \in {"u", "U"} /\ s[i + 1] \in {"r", "R"} /\ s[i + 2] \in {"l", "L"}
    THEN LET j == i + 3 + LeadLen(Drop(s, i + 2), {" "})
         IN  IF j <= Len(s) /\ s[j] = "("
             THEN (IF j + 1 <= Len(s) /\ s[j + 1] \in Quotes THEN j + 2 ELSE j + 1)
             ELSE 0
    ELSE 0

\* url.match(/url\s*\(['"]?(.*?)(?:\?.*)?['"]?\)/i)[1], or undefined when match
\* returns null: the leftmost match, its lazy group 1 the shortest
urlGroup(s) ==
    LET ends(i) == {e \in urlGroupStart(s, i)..Len(s) : urlTailAt(s, e)}
        starts == {i \in 1..Len(s) : urlGroupStart(s, i) > 0 /\ ends(i) /= {}}
    IN  IF starts = {} THEN Undefined
        ELSE LET i == CHOOSE x \in starts : \A y \in starts : x <= y
                 e == CHOOSE x \in ends(i) : \A y \in ends(i) : x <= y
             IN  SubSeq(s, urlGroupStart(s, i), e - 1)

\* the try/catch: '' when url is undefined or the pattern does not match
fontFaceUrl(declarationBlock) ==
    LET url == lastValue(declarationBlock.declarations, "src")
    IN  IF url = Undefined \/ urlGroup(url) = Undefined THEN <<>> ELSE urlGroup(url)

\* the property key a value converts to
keyOf(v) == IF v = Undefined THEN <<"u", "n", "d", "e", "f", "i", "n", "e", "d">> ELSE v

\* hash[key] = value, on the object as its key-value pairs in insertion order
put(hash, key, value) ==
    IF \E i \in 1..Len(hash) : hash[i][1] = key
    THEN [i \in 1..Len(hash) |-> IF hash[i][1] = key THEN <<key, value>> ELSE hash[i]]
    ELSE Append(hash, <<key, value>>)

\* getFontUrls keeping the first rule of a family instead of the last
RECURSIVE foldFontFacesFirstWins(_, _)
foldFontFacesFirstWins(faces, hash) ==
    IF faces = <<>> THEN hash
    ELSE LET key == keyOf(lastValue(Head(faces).declarations, "font-family"))
         IN  foldFontFacesFirstWins(Tail(faces),
                IF \E i \in 1..Len(hash) : hash[i][1] = key THEN hash
                ELSE put(hash, key, fontFaceUrl(Head(faces))))

getFontUrlsFirstWins ==
    foldFontFacesFirstWins(SelectSeq(rules, LAMBDA item : item.type = "font-face"), <<>>)

RECURSIVE foldFontFaces(_, _)
foldFontFaces(faces, hash) ==
    IF faces = <<>> THEN hash
    ELSE foldFontFaces(Tail(faces),
            put(hash,
                keyOf(lastValue(Head(faces).declarations, "font-family")),
                fontFaceUrl(Head(faces))))

\* getFontUrls: the object as its key-value pairs
getFontUrls ==
    foldFontFaces(SelectSeq(rules, LAMBDA item : item.type = "font-face"), <<>>)

\* Object.keys
keys(hash) == [i \in 1..Len(hash) |-> hash[i][1]]

\* getFontsNotInUse without the filter on the declared fonts
getFontsNotInUseNoFilter == keys(getFontUrls)

getFontsNotInUse ==
    LET declaredFonts == unique(splitFonts(getFontsInUse))
    IN  SelectSeq(keys(getFontUrls), LAMBDA font : ~Includes(declaredFonts, font))

getFonts == getFontsInUse \o getFontsNotInUse

GetFontFamilies ==
    /\ called' = "getFontFamilies"
    /\ ret' = getFontFamilies
    /\ raised' = FALSE
    /\ UNCHANGED doc

GetFontsInUse ==
    /\ called' = "getFontsInUse"
    /\ IF getFontsInUseThrows
       THEN ret' = <<>> /\ raised' = TRUE
       ELSE ret' = getFontsInUse /\ raised' = FALSE
    /\ UNCHANGED doc

GetFontsNotInUse ==
    /\ called' = "getFontsNotInUse"
    /\ IF getFontsInUseThrows
       THEN ret' = <<>> /\ raised' = TRUE
       ELSE ret' = getFontsNotInUse /\ raised' = FALSE
    /\ UNCHANGED doc

GetFonts ==
    /\ called' = "getFonts"
    /\ IF getFontsInUseThrows
       THEN ret' = <<>> /\ raised' = TRUE
       ELSE ret' = getFonts /\ raised' = FALSE
    /\ UNCHANGED doc

GetFontUrls ==
    /\ called' = "getFontUrls"
    /\ ret' = getFontUrls
    /\ raised' = FALSE
    /\ UNCHANGED doc

\* A node of the parsed tree
Decl(property, value) == [type |-> "declaration", property |-> property, value |-> value]

Comment == [type |-> "comment", property |-> "", value |-> <<>>]

Rule(type, selectors, declarations) ==
    [type |-> type, selectors |-> selectors, declarations |-> declarations]

FamilyA == <<"A">>

FamilyQuotedB == <<"\"", "B", "\"">>

FamilyC == <<"C">>

SrcWithQuery == <<"u", "r", "l", "(", "a", ".", "w", "o", "f", "f", "?", "v", "=", "1", ")", " ", "f", "o", "r", "m", "a", "t", "(", "\"", "w", "o", "f", "f", "\"", ")">>

SrcQuoted == <<"u", "r", "l", "(", "\"", "b", ".", "t", "t", "f", "\"", ")">>

SrcLocal == <<"l", "o", "c", "a", "l", "(", "B", ")">>

SrcEot == <<"u", "r", "l", "(", "c", ".", "e", "o", "t", ")">>

SrcTwoUrls == <<"U", "R", "L", " ", "(", "'", "c", ".", "e", "o", "t", "?", "#", "x", "'", ")", ",", " ", "u", "r", "l", "(", "c", ".", "t", "t", "f", ")">>

\* The font-face rules of the explored documents, and a style rule beside them
FontFaceRules ==
    { Rule("font-face", <<>>, <<Decl("font-family", FamilyA), Decl("src", SrcWithQuery)>>),
      Rule("font-face", <<>>, <<Decl("src", SrcQuoted), Decl("font-family", FamilyA)>>),
      Rule("font-face", <<>>, <<Decl("font-family", FamilyQuotedB), Decl("src", SrcLocal)>>),
      Rule("font-face", <<>>, <<Comment, Decl("font-family", FamilyQuotedB)>>),
      Rule("font-face", <<>>, <<Decl("src", SrcQuoted)>>),
      Rule("font-face", <<>>,
           <<Decl("font-family", FamilyC), Decl("src", SrcEot), Decl("src", SrcTwoUrls)>>),
      Rule("rule", <<<<"b", "o", "d", "y">>>>, <<Decl("font-family", FamilyC), Decl("src", SrcQuoted)>>) }

\* The font-family values of the explored documents; undefined is a falsy entry
FamilyValues ==
    { <<"A", ",", " ", "s", "e", "r", "i", "f">>,
      FamilyQuotedB,
      <<"i", "n", "h", "e", "r", "i", "t">>,
      Undefined }

InitFonts ==
    /\ properties = <<>>
    /\ allFontSizes = <<>>
    /\ allFontFamilies \in SeqsOf(FamilyValues, 0, MaxFamilies)
    /\ rules \in SeqsOf(FontFaceRules, 0, MaxFontFaces)
    /\ NoCall

NextFonts ==
    \/ GetFontFamilies
    \/ GetFontsInUse
    \/ GetFontsNotInUse
    \/ GetFonts
    \/ GetFontUrls

SpecFonts == InitFonts /\ [][NextFonts]_vars

-----------------------------------------------------------------------------
(* Claims on fonts and on all the accessors *)

ProcessedListAccessors ==
    {"getBackgroundColors", "getColorColors", "getColors", "getFontSizes",
     "getFontsInUse", "getFontsNotInUse", "getFonts", "getSpacings"}

\* C1: every list returned by an accessor that promises a processed list has
\* no duplicate entry and none of the excluded values auto, inherit, initial, none.
C1_ListsUniqueAndNotExcluded ==
    (called \in ProcessedListAccessors /\ ~raised) =>
        /\ \A i, j \in 1..Len(ret) : i /= j => ret[i] /= ret[j]
        /\ \A i \in 1..Len(ret) : ret[i] \notin Range(excludedValues)

\* C4: getFontsNotInUse() is exactly the keys of getFontUrls() that equal no
\* entry of getFontsInUse(), so that the two lists are disjoint.
C4_NotInUseIsKeysMinusInUse ==
    (called = "getFontsNotInUse" /\ ~raised) =>
        /\ Range(ret) = Range(keys(getFontUrls)) \ Range(getFontsInUse)
        /\ Range(ret) \cap Range(getFontsInUse) = {}

\* a declared font is in use, another is not
C4_Witness ==
    /\ called = "getFontsNotInUse"
    /\ ~raised
    /\ ret /= <<>>
    /\ Range(keys(getFontUrls)) \cap Range(getFontsInUse) /= {}

FontFaceIndexes == {i \in 1..Len(rules) : rules[i].type = "font-face"}

HasDeclaration(rule, property) ==
    \E k \in 1..Len(rule.declarations) :
        rule.declarations[k].type = "declaration"
          /\ rule.declarations[k].property = property

\* the entry of the returned object for a key, as a set of values
ValuesAt(hash, key) == {hash[k][2] : k \in {n \in 1..Len(hash) : hash[n][1] = key}}

LastOfItsKey(i) ==
    \A j \in FontFaceIndexes :
        j > i => keyOf(lastValue(rules[j].declarations, "font-family"))
                    /= keyOf(lastValue(rules[i].declarations, "font-family"))

C6_NoOperationRaises ==
    /\ called /= "" => ~raised
    /\ (called \in {"getFontsInUse", "getFontFamilies"} /\ allFontFamilies = <<>>)
          => ret = <<>>
    /\ (called \in {"getFontSizes"} /\ allFontSizes = <<>>) => ret = <<>>
    /\ (called \in {"getSpacings", "getColors", "getColorColors", "getBackgroundColors"}
          /\ DOMAIN properties = {}) => ret = <<>>

-----------------------------------------------------------------------------
(* Font sizes *)

getFontSizes == SelectSeq(unique(allFontSizes), notExcluded)

\* previous.concat(declarationBlock.declarations) over the blocks
RECURSIVE concatDeclarations(_)
concatDeclarations(blocks) ==
    IF blocks = <<>> THEN <<>>
    ELSE Head(blocks).declarations \o concatDeclarations(Tail(blocks))

\* the font-size declarations of the rules whose only selector is html
htmlFontSizes ==
    SelectSeq(
        concatDeclarations(
            SelectSeq(rules, LAMBDA declaration :
                /\ declaration.type = "rule"
                /\ Len(declaration.selectors) = 1
                /\ declaration.selectors[1] = <<"h", "t", "m", "l">>)),
        LAMBDA declaration :
            declaration.type = "declaration" /\ declaration.property = "font-size")

\* the root font size given the declaration that pop() returned
rootFontSizeOf(found) ==
    IF found = <<>> THEN defaultFontSize
    ELSE LET fontSize == found[1]
         IN  IF indexOf(fontSize.value, <<"%">>) >= 0
             THEN NumToStr(NumDiv(NumMul(parseFloat(defaultFontSize),
                                         parseFloat(fontSize.value)),
                                  Num(100 * Scale))) \o <<"p", "x">>
             ELSE fontSize.value

\* getRootFontSize taking the first declaration (shift) instead of the last (pop)
getRootFontSizeFirstWins ==
    rootFontSizeOf(IF htmlFontSizes = <<>> THEN <<>> ELSE <<Head(htmlFontSizes)>>)

getRootFontSize ==
    rootFontSizeOf(IF htmlFontSizes = <<>> THEN <<>>
                   ELSE <<htmlFontSizes[Len(htmlFontSizes)]>>)

\* remToPx
remToPx(rootFontSize, fontSize) ==
    NumToStr(NumMul(parseFloat(NumToStr(rootFontSize)), parseFloat(fontSize)))
        \o <<"p", "x">>

isScalable(size) ==
    indexOf(size, <<"r", "e", "m">>) >= 0 \/ indexOf(size, <<"p", "x">>) >= 0

\* size.indexOf throws a TypeError on an entry that is no string
scaleThrows(fontSizes) == \E i \in 1..Len(fontSizes) : fontSizes[i] = Undefined

\* scaleFontSizes without the call of reverse
scaleFontSizesAscending(fontSizes, rootSize) ==
    LET unitlessRootSize == parseFloat(rootSize)
        kept == SelectSeq(fontSizes, isScalable)
        lt == {p \in Range(kept) \X Range(kept) :
                 Negative(sortScalableFontSizes(unitlessRootSize, p[1], p[2]))}
    IN  { [i \in 1..Len(sorted) |->
             IF indexOf(sorted[i], <<"r", "e", "m">>) >= 0
             THEN <<remToPx(unitlessRootSize, sorted[i]), sorted[i]>>
             ELSE <<sorted[i], sorted[i]>>]
          : sorted \in sortBy(kept, lt) }

\* scaleFontSizes: the set of the arrays of pairs it may return
scaleFontSizes(fontSizes, rootSize) ==
    LET unitlessRootSize == parseFloat(rootSize)
        kept == SelectSeq(fontSizes, isScalable)
        lt == {p \in Range(kept) \X Range(kept) :
                 Negative(sortScalableFontSizes(unitlessRootSize, p[1], p[2]))}
    IN  { [i \in 1..Len(sorted) |->
             LET size == reverse(sorted)[i]
             IN  IF indexOf(size, <<"r", "e", "m">>) >= 0
                 THEN <<remToPx(unitlessRootSize, size), size>>
                 ELSE <<size, size>>]
          : sorted \in sortBy(kept, lt) }

\* filterScalableFontSizes: the set of the arrays it may return
filterScalableFontSizes(fontSizes) ==
    LET kept == SelectSeq(fontSizes, LAMBDA size : ~isScalable(size))
        lt == {p \in Range(kept) \X Range(kept) : Negative(sortUnitValues(p[1], p[2]))}
    IN  { reverse(sorted) : sorted \in sortBy(kept, lt) }

GetFontSizes ==
    /\ called' = "getFontSizes"
    /\ ret' = getFontSizes
    /\ raised' = FALSE
    /\ UNCHANGED doc

GetRootFontSize ==
    /\ called' = "getRootFontSize"
    /\ ret' = getRootFontSize
    /\ raised' = FALSE
    /\ UNCHANGED doc

\* generateStyleGuide: scaleFontSizes(this.getFontSizes(), getRootFontSize(this))
ScaleFontSizes ==
    /\ called' = "scaleFontSizes"
    /\ IF scaleThrows(getFontSizes)
       THEN ret' = <<>> /\ raised' = TRUE
       ELSE ret' \in scaleFontSizes(getFontSizes, getRootFontSize) /\ raised' = FALSE
    /\ UNCHANGED doc

\* generateStyleGuide: filterScalableFontSizes(this.getFontSizes())
FilterScalableFontSizes ==
    /\ called' = "filterScalableFontSizes"
    /\ IF scaleThrows(getFontSizes)
       THEN ret' = <<>> /\ raised' = TRUE
       ELSE ret' \in filterScalableFontSizes(getFontSizes) /\ raised' = FALSE
    /\ UNCHANGED doc

Html == <<<<"h", "t", "m", "l">>>>

FontSize(value) == Decl("font-size", value)

\* The rules of the documents explored for the root font size
HtmlRules ==
    { Rule("rule", Html, <<FontSize(<<"6", "2", ".", "5", "%">>)>>),
      Rule("rule", Html, <<FontSize(<<"2", "0", "p", "x">>), Comment, FontSize(<<"5", "0", "%">>), Decl("color", <<"r", "e", "d">>)>>),
      Rule("rule", Html, <<FontSize(<<"1", ".", "5", "e", "m">>)>>),
      Rule("rule", <<<<"h", "t", "m", "l">>, <<"b", "o", "d", "y">>>>, <<FontSize(<<"2", "0", "p", "x">>)>>),
      Rule("rule", <<<<"b", "o", "d", "y">>>>, <<FontSize(<<"2", "0", "0", "%">>)>>),
      Rule("font-face", <<>>, <<FontSize(<<"2", "0", "0", "%">>)>>) }

\* The font-size values of the explored documents; undefined is a falsy entry
SizeValues ==
    { <<"2", "r", "e", "m">>,
      <<"2", "4", "p", "x">>,
      <<"2", "0", "p", "x">>,
      <<"1", ".", "5", "e", "m">>,
      <<"1", "2", "0", "%">>,
      <<"i", "n", "h", "e", "r", "i", "t">>,
      Undefined }

\* The style-sheets beside which the font sizes are explored
RootDocs ==
    { <<>>,
      <<Rule("rule", Html, <<FontSize(<<"6", "2", ".", "5", "%">>)>>)>>,
      <<Rule("rule", Html, <<FontSize(<<"1", ".", "5", "e", "m">>)>>)>> }

InitRoot ==
    /\ properties = <<>>
    /\ allFontSizes = <<>>
    /\ allFontFamilies = <<>>
    /\ rules \in SeqsOf(HtmlRules, 0, MaxHtmlRules)
    /\ NoCall

NextRoot == GetRootFontSize

SpecRoot == InitRoot /\ [][NextRoot]_vars

InitSizes ==
    /\ properties = <<>>
    /\ allFontSizes \in SeqsOf(SizeValues, 0, MaxSizes)
    /\ allFontFamilies = <<>>
    /\ rules \in RootDocs
    /\ NoCall

NextSizes ==
    \/ GetFontSizes
    \/ GetRootFontSize
    \/ ScaleFontSizes
    \/ FilterScalableFontSizes

SpecSizes == InitSizes /\ [][NextSizes]_vars

-----------------------------------------------------------------------------
(* Claims on font sizes *)

\* the places (rule, declaration) of the font-size declarations of the style
\* rules whose selector list is the single selector html
HtmlFontSizePlaces ==
    {p \in UNION { {<<i, k>> : k \in 1..Len(rules[i].declarations)} : i \in 1..Len(rules) } :
        /\ rules[p[1]].type = "rule"
        /\ rules[p[1]].selectors = Html
        /\ rules[p[1]].declarations[p[2]].type = "declaration"
        /\ rules[p[1]].declarations[p[2]].property = "font-size"}

Later(p, q) == p[1] > q[1] \/ (p[1] = q[1] /\ p[2] > q[2])

LastHtmlFontSize ==
    LET p == CHOOSE x \in HtmlFontSizePlaces :
                \A y \in HtmlFontSizePlaces : y = x \/ Later(x, y)
    IN  rules[p[1]].declarations[p[2]].value

IsPercentage(value) == value /= <<>> /\ value[Len(value)] = "%"

\* C7: getRootFontSize looks only at the last font-size declaration of the
\* style rules whose selector list is exactly html: 16px when there is none,
\* (16 * X / 100) px when it is X%, 62.5% giving 10px.
C7_RootFromLastHtmlFontSize ==
    called = "getRootFontSize" =>
        /\ HtmlFontSizePlaces = {} => ret = <<"1", "6", "p", "x">>
        /\ (HtmlFontSizePlaces /= {} /\ IsPercentage(LastHtmlFontSize)) =>
              /\ parseFloat(ret).v * 100 = 16 * parseFloat(LastHtmlFontSize).v
              /\ TrailingUnit(ret) = <<"p", "x">>
        /\ (HtmlFontSizePlaces /= {} /\ LastHtmlFontSize = <<"6", "2", ".", "5", "%">>) => ret = <<"1", "0", "p", "x">>
        /\ (HtmlFontSizePlaces /= {} /\ LastHtmlFontSize = <<"5", "0", "%">>) => ret = <<"8", "p", "x">>

\* an html rule with a percentage follows html rules with other font sizes
C7_Witness ==
    /\ called = "getRootFontSize"
    /\ Cardinality({p[1] : p \in HtmlFontSizePlaces}) >= 2
    /\ LastHtmlFontSize = <<"6", "2", ".", "5", "%">>
    /\ \E p \in HtmlFontSizePlaces :
          rules[p[1]].declarations[p[2]].value \notin {<<"6", "2", ".", "5", "%">>}
    /\ ret = <<"1", "0", "p", "x">>

\* a numeric magnitude followed by px
IsPixelValue(value) ==
    /\ TrailingUnit(value) = <<"p", "x">>
    /\ ~parseFloat(value).nan

\* C8: the root font size returned by getRootFontSize is a pixel value,
\* whatever unit the html rule's font-size declaration uses.
C8_RootIsPixelValue ==
    called = "getRootFontSize" => IsPixelValue(ret)

\* the sizes of getFontSizes() whose unit is px or rem
ScalableSizes ==
    {size \in Range(getFontSizes) :
        TrailingUnit(size) \in {<<"p", "x">>, <<"r", "e", "m">>}}

\* C9: for a root size in px, scaleFontSizes returns one (pixel equivalent,
\* original text) pair for exactly the px and rem sizes, N rem being N times the
\* root size, in descending order of pixel equivalent; filterScalableFontSizes
\* returns exactly the other sizes.
C9_ScaledPairsDescending ==
    /\ (called = "scaleFontSizes" /\ ~raised /\ IsPixelValue(getRootFontSize)) =>
          /\ {ret[k][2] : k \in 1..Len(ret)} = ScalableSizes
          /\ Len(ret) = Cardinality(ScalableSizes)
          /\ \A k \in 1..Len(ret) :
                IF TrailingUnit(ret[k][2]) = <<"r", "e", "m">>
                THEN /\ TrailingUnit(ret[k][1]) = <<"p", "x">>
                     /\ parseFloat(ret[k][1]).v * Scale
                          = parseFloat(ret[k][2]).v * parseFloat(getRootFontSize).v
                ELSE ret[k][1] = ret[k][2]
          /\ \A k, l \in 1..Len(ret) :
                k < l => parseFloat(ret[k][1]).v >= parseFloat(ret[l][1]).v
    /\ (called = "filterScalableFontSizes" /\ ~raised) =>
          /\ Range(ret) = Range(getFontSizes) \ ScalableSizes
          /\ Len(ret) = Cardinality(Range(ret))

\* 2rem and 24px beside html{font-size:62.5%} give [[24px,24px],[20px,2rem]]
C9_Witness ==
    /\ called = "scaleFontSizes"
    /\ getRootFontSize = <<"1", "0", "p", "x">>
    /\ ret = << <<<<"2", "4", "p", "x">>, <<"2", "4", "p", "x">>>>, <<<<"2", "0", "p", "x">>, <<"2", "r", "e", "m">>>> >>

=============================================================================
